---- MODULE Spec2Model ----
(***************************************************************************)
(* Lisbon road accidents dashboard (app.py).                               *)
(*                                                                         *)
(* The Streamlit script is executed top to bottom on every rerun: it takes *)
(* the cached result of load_data, reads the sidebar widgets, builds the   *)
(* filtered view and renders the metrics, the map, the charts, the table   *)
(* and the two CSV exports.  One action of the model is one rerun of the   *)
(* whole script, triggered by one widget interaction.                      *)
(*                                                                         *)
(* A data frame is a sequence of rows (records keyed by column name), in   *)
(* row order.  A date is the day of the year 2023 (31 = 31 January,        *)
(* 32 = 1 February); the calendar fields are computed from it.             *)
(* CHOOSE is used only where the chosen value is unique.                   *)
(***************************************************************************)
EXTENDS Integers, Sequences, FiniteSets, TLC

VARIABLES
    raw,                  \* rows of data/Road_Accidents_Lisbon.csv
    cached,               \* entry of st.cache_data for load_data (<<>> before the first call)
    df,                   \* module-level df as the last run left it
    date_range,           \* value of the date_input widget: a tuple of 0, 1 or 2 dates
    severity_options,     \* value of each multiselect
    weather_options,
    road_type_options,
    parish_options,
    time_period_options,
    filtered_df,          \* the filtered view of the last run
    metrics,              \* the five st.metric widgets
    map_panel,            \* what the map section rendered
    charts_panel,         \* what the charts section rendered
    hourly_data,          \* aggregations of the charts section (<<>> when the section is skipped)
    monthly_data,
    day_data,
    table,                \* rows shown by st.dataframe
    csv,                  \* data of the "filtered" download button
    csv_full,             \* data of the "full dataset" download button
    runs                  \* number of runs of the script in this session

vars == <<raw, cached, df, date_range, severity_options, weather_options,
          road_type_options, parish_options, time_period_options, filtered_df,
          metrics, map_panel, charts_panel, hourly_data, monthly_data, day_data,
          table, csv, csv_full, runs>>

(***************************************************************************)
(* Bounds of the model.                                                    *)
(***************************************************************************)
MaxRows == 3
MaxRuns == 3
MaxCount == 2

(***************************************************************************)
(* Sample rows of the input file.  Latitude and longitude are in 1e-4      *)
(* degrees.                                                                *)
(***************************************************************************)
SampleRows ==
    << [id |-> 101, date |-> 32, hour |-> 22, latitude |-> 387500, longitude |-> -91500,
        parish |-> "Alvalade", road_type |-> "Avenue", accident_type |-> "Collision",
        weather |-> "Clear", num_vehicles |-> 2, injuries_light |-> 2,
        injuries_serious |-> 0, fatalities_30d |-> 0, day_of_week |-> "Wednesday"],
       [id |-> 102, date |-> 31, hour |-> 8, latitude |-> 387200, longitude |-> -91400,
        parish |-> "Alvalade", road_type |-> "Street", accident_type |-> "Collision",
        weather |-> "Clear", num_vehicles |-> 2, injuries_light |-> 0,
        injuries_serious |-> 2, fatalities_30d |-> 1, day_of_week |-> "Tuesday"],
       [id |-> 103, date |-> 31, hour |-> 18, latitude |-> 387000, longitude |-> -92000,
        parish |-> "Belem", road_type |-> "Avenue", accident_type |-> "Run-over",
        weather |-> "Rain", num_vehicles |-> 1, injuries_light |-> 1,
        injuries_serious |-> 1, fatalities_30d |-> 0, day_of_week |-> "Tuesday"],
       [id |-> 104, date |-> 32, hour |-> 8, latitude |-> 386900, longitude |-> -92100,
        parish |-> "Belem", road_type |-> "Street", accident_type |-> "Skid",
        weather |-> "Rain", num_vehicles |-> 1, injuries_light |-> 0,
        injuries_serious |-> 0, fatalities_30d |-> 0, day_of_week |-> "Wednesday"] >>

Hours == 0 .. 23

(***************************************************************************)
(* Calendar: pandas' dt.month, dt.month_name and the ISO rendering of a    *)
(* date, for the year 2023.                                                *)
(***************************************************************************)
month_order == << "January", "February", "March", "April", "May", "June",
                  "July", "August", "September", "October", "November", "December" >>

DaysBefore == << 0, 31, 59, 90, 120, 151, 181, 212, 243, 273, 304, 334, 365 >>

MonthOf(d) == CHOOSE m \in 1 .. 12 : DaysBefore[m] < d /\ d <= DaysBefore[m + 1]

MonthName(d) == month_order[MonthOf(d)]

DateStr(d) == << 2023, MonthOf(d), d - DaysBefore[MonthOf(d)] >>

(***************************************************************************)
(* load_data                                                               *)
(***************************************************************************)
\* the serious-injury test made before the fatality test
categorize_severity_serious_first(row) ==
    IF row.injuries_serious > 0 THEN "Serious"
    ELSE IF row.fatalities_30d > 0 THEN "Fatal"
    ELSE IF row.injuries_light > 0 THEN "Light"
    ELSE "Property Damage Only"

categorize_severity(row) ==
    IF row.fatalities_30d > 0 THEN "Fatal"
    ELSE IF row.injuries_serious > 0 THEN "Serious"
    ELSE IF row.injuries_light > 0 THEN "Light"
    ELSE "Property Damage Only"

\* closed upper boundaries instead of half-open ones
categorize_time_period_closed(hour) ==
    IF 6 <= hour /\ hour <= 12 THEN "Morning"
    ELSE IF 12 <= hour /\ hour <= 18 THEN "Afternoon"
    ELSE IF 18 <= hour /\ hour <= 22 THEN "Evening"
    ELSE "Night"

categorize_time_period(hour) ==
    IF 6 <= hour /\ hour < 12 THEN "Morning"
    ELSE IF 12 <= hour /\ hour < 18 THEN "Afternoon"
    ELSE IF 18 <= hour /\ hour < 22 THEN "Evening"
    ELSE "Night"

Enrich(row) ==
    row @@ [month |-> MonthOf(row.date),
            month_name |-> MonthName(row.date),
            severity |-> categorize_severity(row),
            total_casualties |-> row.injuries_light + row.injuries_serious
                                 + row.fatalities_30d,
            time_period |-> categorize_time_period(row.hour)]

load_data(file) == [i \in 1 .. Len(file) |-> Enrich(file[i])]

(***************************************************************************)
(* Column helpers of a data frame.                                         *)
(***************************************************************************)
Unique(frame, col) == {frame[i][col] : i \in 1 .. Len(frame)}

SetMin(S) == CHOOSE x \in S : \A y \in S : x <= y

SetMax(S) == CHOOSE x \in S : \A y \in S : y <= x

RECURSIVE Sum(_, _)
Sum(frame, col) ==
    IF frame = <<>> THEN 0 ELSE Head(frame)[col] + Sum(Tail(frame), col)

RECURSIVE CountEq(_, _, _)
CountEq(frame, col, v) ==
    IF frame = <<>> THEN 0
    ELSE (IF Head(frame)[col] = v THEN 1 ELSE 0) + CountEq(Tail(frame), col, v)

\* frame[mask]: the rows whose mask entry is True, in row order
RECURSIVE BoolIndex(_, _)
BoolIndex(frame, mask) ==
    IF frame = <<>> THEN <<>>
    ELSE (IF Head(mask) THEN <<Head(frame)>> ELSE <<>>)
         \o BoolIndex(Tail(frame), Tail(mask))

(***************************************************************************)
(* Sidebar filters: the options and the default value of every widget.     *)
(***************************************************************************)
\* the option list without 'Night'
TimePeriodChoicesNoNight == {"Morning", "Afternoon", "Evening"}

TimePeriodChoices == {"Morning", "Afternoon", "Evening", "Night"}

DefaultDateRange(data) == << SetMin(Unique(data, "date")), SetMax(Unique(data, "date")) >>

\* what st.date_input can return: no date, the start date alone, or a range
\* inside [min_value, max_value]
DateRangeChoices(data) ==
    LET lo == SetMin(Unique(data, "date"))
        hi == SetMax(Unique(data, "date"))
    IN  {<<>>} \cup {<<a>> : a \in lo .. hi}
        \cup {p \in (lo .. hi) \X (lo .. hi) : p[1] <= p[2]}

DefaultFilters(data) ==
    [date_range |-> DefaultDateRange(data),
     severity_options |-> Unique(data, "severity"),
     weather_options |-> Unique(data, "weather"),
     road_type_options |-> Unique(data, "road_type"),
     parish_options |-> Unique(data, "parish"),
     time_period_options |-> TimePeriodChoices]

Filters ==
    [date_range |-> date_range,
     severity_options |-> severity_options,
     weather_options |-> weather_options,
     road_type_options |-> road_type_options,
     parish_options |-> parish_options,
     time_period_options |-> time_period_options]

(***************************************************************************)
(* Apply filters.                                                          *)
(***************************************************************************)
\* the upper date bound made exclusive
MaskExclusiveUpper(data, f) ==
    [i \in 1 .. Len(data) |->
        /\ data[i].date >= f.date_range[1]
        /\ data[i].date < f.date_range[2]
        /\ data[i].severity \in f.severity_options
        /\ data[i].weather \in f.weather_options
        /\ data[i].road_type \in f.road_type_options
        /\ data[i].parish \in f.parish_options
        /\ data[i].time_period \in f.time_period_options]

Mask(data, f) ==
    [i \in 1 .. Len(data) |->
        /\ data[i].date >= f.date_range[1]
        /\ data[i].date <= f.date_range[2]
        /\ data[i].severity \in f.severity_options
        /\ data[i].weather \in f.weather_options
        /\ data[i].road_type \in f.road_type_options
        /\ data[i].parish \in f.parish_options
        /\ data[i].time_period \in f.time_period_options]

\* the filter applied to df itself (df = df[mask])
ApplyFiltersInPlace(data, f) ==
    IF Len(f.date_range) = 2
    THEN [df |-> BoolIndex(data, Mask(data, f)),
          filtered_df |-> BoolIndex(data, Mask(data, f))]
    ELSE [df |-> data, filtered_df |-> data]

\* the categorical filters applied also when the date range is incomplete
ApplyFiltersWithoutDates(data, f) ==
    IF Len(f.date_range) = 2
    THEN [df |-> data, filtered_df |-> BoolIndex(data, Mask(data, f))]
    ELSE [df |-> data,
          filtered_df |->
              BoolIndex(data,
                  [i \in 1 .. Len(data) |->
                      /\ data[i].severity \in f.severity_options
                      /\ data[i].weather \in f.weather_options
                      /\ data[i].road_type \in f.road_type_options
                      /\ data[i].parish \in f.parish_options
                      /\ data[i].time_period \in f.time_period_options])]

\* df and filtered_df after the filter step; df[mask] is a new frame and the
\* else branch binds filtered_df to df itself
ApplyFilters(data, f) ==
    IF Len(f.date_range) = 2
    THEN [df |-> data, filtered_df |-> BoolIndex(data, Mask(data, f))]
    ELSE [df |-> data, filtered_df |-> data]

(***************************************************************************)
(* Key metrics.                                                            *)
(***************************************************************************)
\* f"{x:.1f}" of part/whole*100, in tenths of a percent (round half to even)
PercentTenths(part, whole) ==
    LET q == (1000 * part) \div whole
        r == (1000 * part) % whole
    IN  IF 2 * r > whole \/ (2 * r = whole /\ q % 2 = 1) THEN q + 1 ELSE q

KeyMetrics(view, data) ==
    [total_accidents |-> Len(view),
     delta |-> IF Len(data) > 0 THEN <<PercentTenths(Len(view), Len(data))>> ELSE <<>>,
     total_casualties |-> Sum(view, "total_casualties"),
     fatal_accidents |-> CountEq(view, "severity", "Fatal"),
     serious_injuries |-> Sum(view, "injuries_serious"),
     parishes_affected |-> Cardinality(Unique(view, "parish"))]

(***************************************************************************)
(* Map section.                                                            *)
(***************************************************************************)
severity_colors(s) ==
    CASE s = "Property Damage Only" -> "green"
      [] s = "Light" -> "orange"
      [] s = "Serious" -> "red"
      [] s = "Fatal" -> "darkred"
      [] OTHER -> "blue"

NoDataNotice == "No data available for the selected filters."

\* the map drawn without the empty-view guard
MapSectionUnguarded(view) ==
    [notices |-> <<>>,
     markers |-> [i \in 1 .. Len(view) |->
                     [location |-> <<view[i].latitude, view[i].longitude>>,
                      color |-> severity_colors(view[i].severity)]]]

MapSection(view) ==
    IF Len(view) > 0
    THEN [notices |-> <<>>,
          markers |-> [i \in 1 .. Len(view) |->
                          [location |-> <<view[i].latitude, view[i].longitude>>,
                           color |-> severity_colors(view[i].severity)]]]
    ELSE [notices |-> <<NoDataNotice>>, markers |-> <<>>]

(***************************************************************************)
(* Charts section.                                                         *)
(***************************************************************************)
RECURSIVE Ascending(_)
Ascending(S) ==
    IF S = {} THEN <<>> ELSE <<SetMin(S)>> \o Ascending(S \ {SetMin(S)})

\* position of x in the sequence s (0 when absent)
IndexOf(s, x) ==
    IF \E k \in 1 .. Len(s) : s[k] = x
    THEN CHOOSE k \in 1 .. Len(s) : s[k] = x /\ \A j \in 1 .. k - 1 : s[j] # x
    ELSE 0

\* the keys of a column in order of first appearance
RECURSIVE FirstSeen(_, _)
FirstSeen(frame, col) ==
    IF frame = <<>> THEN <<>>
    ELSE LET rest == FirstSeen(SubSeq(frame, 1, Len(frame) - 1), col)
             v == frame[Len(frame)][col]
         IN  IF IndexOf(rest, v) = 0 THEN Append(rest, v) ELSE rest

\* groupby('hour', sort=False): the groups in order of first appearance
HourlyDataUnsorted(view) ==
    LET keys == FirstSeen(view, "hour")
    IN  [k \in 1 .. Len(keys) |->
            [hour |-> keys[k], count |-> CountEq(view, "hour", keys[k])]]

\* groupby('hour').size().reset_index(name='count'): one row per hour that
\* occurs in the view, in ascending order of the key
HourlyData(view) ==
    LET keys == Ascending(Unique(view, "hour"))
    IN  [k \in 1 .. Len(keys) |->
            [hour |-> keys[k], count |-> CountEq(view, "hour", keys[k])]]

\* lexicographic order of the month names: the order groupby sorts its keys in
AlphaMonths == << "April", "August", "December", "February", "January", "July",
                  "June", "March", "May", "November", "October", "September" >>

MonthlyGroups(view) ==
    LET present(m) == m \in Unique(view, "month_name")
        keys == SelectSeq(AlphaMonths, present)
    IN  [k \in 1 .. Len(keys) |->
            [month_name |-> keys[k], count |-> CountEq(view, "month_name", keys[k])]]

\* sort_values on the ordered categorical: by position in month_order
RECURSIVE SortByCategory(_, _)
SortByCategory(rows, categories) ==
    IF rows = <<>> THEN <<>>
    ELSE LET first == CHOOSE k \in 1 .. Len(rows) :
                         \A j \in 1 .. Len(rows) :
                            IndexOf(categories, rows[k].month_name)
                               <= IndexOf(categories, rows[j].month_name)
             rest == [j \in 1 .. Len(rows) - 1 |->
                         IF j < first THEN rows[j] ELSE rows[j + 1]]
         IN  <<rows[first]>> \o SortByCategory(rest, categories)

\* the groups left in the order groupby returns them
MonthlyDataUnsorted(view) == MonthlyGroups(view)

MonthlyData(view) == SortByCategory(MonthlyGroups(view), month_order)

day_order == << "Monday", "Tuesday", "Wednesday", "Thursday", "Friday",
                "Saturday", "Sunday" >>

\* a cell of a float column: <<n>> is the number n, <<>> is NaN
NaN == <<>>

\* value_counts() without the reindex: only the days that occur in the view
DayDataNoReindex(view) ==
    LET present(d) == d \in Unique(view, "day_of_week")
        keys == SelectSeq(day_order, present)
    IN  [k \in 1 .. Len(keys) |->
            [day_of_week |-> keys[k],
             count |-> <<CountEq(view, "day_of_week", keys[k])>>]]

\* value_counts().reindex(day_order).reset_index(): one row per label of
\* day_order, NaN where the view has no row for the day
DayData(view) ==
    [k \in 1 .. Len(day_order) |->
        [day_of_week |-> day_order[k],
         count |-> IF day_order[k] \in Unique(view, "day_of_week")
                   THEN <<CountEq(view, "day_of_week", day_order[k])>>
                   ELSE NaN]]

ChartNames == << "fig_severity", "fig_weather", "fig_road", "fig_type",
                 "fig_hourly", "fig_monthly", "fig_day", "fig_parish" >>

ChartsSection(view) ==
    IF Len(view) > 0
    THEN [notices |-> <<>>, charts |-> ChartNames,
          hourly_data |-> HourlyData(view),
          monthly_data |-> MonthlyData(view),
          day_data |-> DayData(view)]
    ELSE [notices |-> <<>>, charts |-> <<>>,
          hourly_data |-> <<>>, monthly_data |-> <<>>, day_data |-> <<>>]

(***************************************************************************)
(* Data table and downloads.                                               *)
(***************************************************************************)
\* column order of the frame: the columns of the file, then the derived
\* columns in the order load_data adds them
Columns == << "id", "date", "hour", "latitude", "longitude", "parish", "road_type",
              "accident_type", "weather", "num_vehicles", "injuries_light",
              "injuries_serious", "fatalities_30d", "day_of_week",
              "month", "month_name", "severity", "total_casualties", "time_period" >>

columns_to_show == << "id", "date", "hour", "parish", "accident_type", "severity",
                      "weather", "road_type", "total_casualties", "num_vehicles" >>

Cell(row, col) == IF col = "date" THEN DateStr(row.date) ELSE row[col]

\* frame[columns]: every row cut down to the selected columns
DataTable(view, columns) ==
    [i \in 1 .. Len(view) |-> [k \in 1 .. Len(columns) |-> Cell(view[i], columns[k])]]

\* to_csv(index=False): the header line, then one line per row
to_csv(frame) ==
    <<Columns>> \o [i \in 1 .. Len(frame) |->
                      [k \in 1 .. Len(Columns) |-> Cell(frame[i], Columns[k])]]

(***************************************************************************)
(* One run of the script on the cached frame with the widget values f.     *)
(***************************************************************************)
Script(data, f) ==
    LET step == ApplyFilters(data, f)
        view == step.filtered_df
        full == step.df
        sect == ChartsSection(view)
    IN  [df |-> full,
         filtered_df |-> view,
         metrics |-> KeyMetrics(view, full),
         map_panel |-> MapSection(view),
         charts_panel |-> [notices |-> sect.notices, charts |-> sect.charts],
         hourly_data |-> sect.hourly_data,
         monthly_data |-> sect.monthly_data,
         day_data |-> sect.day_data,
         table |-> DataTable(view, columns_to_show),
         csv |-> to_csv(view),
         csv_full |-> to_csv(full)]

\* the run with widget values f leaves the session in the next state
RunScript(data, f) ==
    \E out \in {Script(data, f)} :
        /\ date_range' = f.date_range
        /\ severity_options' = f.severity_options
        /\ weather_options' = f.weather_options
        /\ road_type_options' = f.road_type_options
        /\ parish_options' = f.parish_options
        /\ time_period_options' = f.time_period_options
        /\ df' = out.df
        /\ filtered_df' = out.filtered_df
        /\ metrics' = out.metrics
        /\ map_panel' = out.map_panel
        /\ charts_panel' = out.charts_panel
        /\ hourly_data' = out.hourly_data
        /\ monthly_data' = out.monthly_data
        /\ day_data' = out.day_data
        /\ table' = out.table
        /\ csv' = out.csv
        /\ csv_full' = out.csv_full
        /\ runs' = runs + 1

(***************************************************************************)
(* The session before the first run: the file is on disk, nothing is       *)
(* loaded or rendered.                                                     *)
(***************************************************************************)
NotRun ==
    /\ cached = <<>>
    /\ df = <<>>
    /\ date_range = <<>>
    /\ severity_options = {}
    /\ weather_options = {}
    /\ road_type_options = {}
    /\ parish_options = {}
    /\ time_period_options = {}
    /\ filtered_df = <<>>
    /\ metrics = [total_accidents |-> 0, delta |-> <<>>, total_casualties |-> 0,
                  fatal_accidents |-> 0, serious_injuries |-> 0, parishes_affected |-> 0]
    /\ map_panel = [notices |-> <<>>, markers |-> <<>>]
    /\ charts_panel = [notices |-> <<>>, charts |-> <<>>]
    /\ hourly_data = <<>>
    /\ monthly_data = <<>>
    /\ day_data = <<>>
    /\ table = <<>>
    /\ csv = <<>>
    /\ csv_full = <<>>
    /\ runs = 0

\* the rows of the sample file at the positions S, in file order
RECURSIVE Pick(_)
Pick(S) ==
    IF S = {} THEN <<>> ELSE <<SampleRows[SetMin(S)]>> \o Pick(S \ {SetMin(S)})

\* files of 1 .. MaxRows rows of the sample file
Files ==
    {Pick(S) : S \in {T \in SUBSET (1 .. Len(SampleRows)) :
                         T # {} /\ Cardinality(T) <= MaxRows}}

Init == raw \in Files /\ NotRun

\* first run: load_data is executed and cached, every widget has its default
FirstRun ==
    /\ runs = 0
    /\ cached' = load_data(raw)
    /\ RunScript(cached', DefaultFilters(cached'))
    /\ UNCHANGED raw

\* later runs hit the cache
Started == runs >= 1 /\ runs < MaxRuns

SelectDates ==
    /\ Started
    /\ \E d \in DateRangeChoices(cached) \ {date_range} :
          RunScript(cached, [Filters EXCEPT !.date_range = d])
    /\ UNCHANGED <<raw, cached>>

SelectSeverity ==
    /\ Started
    /\ \E s \in (SUBSET Unique(cached, "severity")) \ {severity_options} :
          RunScript(cached, [Filters EXCEPT !.severity_options = s])
    /\ UNCHANGED <<raw, cached>>

SelectWeather ==
    /\ Started
    /\ \E s \in (SUBSET Unique(cached, "weather")) \ {weather_options} :
          RunScript(cached, [Filters EXCEPT !.weather_options = s])
    /\ UNCHANGED <<raw, cached>>

SelectRoadType ==
    /\ Started
    /\ \E s \in (SUBSET Unique(cached, "road_type")) \ {road_type_options} :
          RunScript(cached, [Filters EXCEPT !.road_type_options = s])
    /\ UNCHANGED <<raw, cached>>

SelectParish ==
    /\ Started
    /\ \E s \in (SUBSET Unique(cached, "parish")) \ {parish_options} :
          RunScript(cached, [Filters EXCEPT !.parish_options = s])
    /\ UNCHANGED <<raw, cached>>

SelectTimePeriod ==
    /\ Started
    /\ \E s \in (SUBSET TimePeriodChoices) \ {time_period_options} :
          RunScript(cached, [Filters EXCEPT !.time_period_options = s])
    /\ UNCHANGED <<raw, cached>>

\* a rerun that leaves the sidebar alone (map style, map interaction, column
\* selection, download)
Rerun ==
    /\ Started
    /\ RunScript(cached, Filters)
    /\ UNCHANGED <<raw, cached>>

Next ==
    \/ FirstRun
    \/ SelectDates
    \/ SelectSeverity
    \/ SelectWeather
    \/ SelectRoadType
    \/ SelectParish
    \/ SelectTimePeriod
    \/ Rerun

Spec == Init /\ [][Next]_vars

(***************************************************************************)
(* The loader alone: a file of one row, with every hour of the day and     *)
(* every combination of casualty counts up to MaxCount.                    *)
(***************************************************************************)
LoaderFiles ==
    {<<[SampleRows[1] EXCEPT !.hour = h, !.injuries_light = l,
                             !.injuries_serious = s, !.fatalities_30d = f]>> :
        h \in Hours, l \in 0 .. MaxCount, s \in 0 .. MaxCount, f \in 0 .. MaxCount}

InitLoader == raw \in LoaderFiles /\ NotRun

NextLoader == FirstRun

SpecLoader == InitLoader /\ [][NextLoader]_vars

(***************************************************************************)
(* Properties.                                                             *)
(***************************************************************************)
HasRun == runs >= 1

\* the rows of df that the sidebar selection accepts, when the date range
\* has both bounds
Kept ==
    {i \in 1 .. Len(df) :
        /\ date_range[1] <= df[i].date
        /\ df[i].date <= date_range[2]
        /\ df[i].severity \in severity_options
        /\ df[i].weather \in weather_options
        /\ df[i].road_type \in road_type_options
        /\ df[i].parish \in parish_options
        /\ df[i].time_period \in time_period_options}

\* C1: with a lower and an upper date bound, the filtered view is exactly
\* the rows of df whose date lies between the bounds (both inclusive) and
\* whose severity, weather, road type, parish and time period are each in
\* the accepted set, in the row order of df; an empty accepted set gives an
\* empty view.
C1_FilteredViewIsTheAcceptedRows ==
    (HasRun /\ Len(date_range) = 2) =>
        /\ Len(filtered_df) = Cardinality(Kept)
        /\ \A i \in Kept : filtered_df[Cardinality({j \in Kept : j <= i})] = df[i]
        /\ (\/ severity_options = {} \/ weather_options = {} \/ road_type_options = {}
            \/ parish_options = {} \/ time_period_options = {}) => filtered_df = <<>>

C1_Witness ==
    /\ HasRun
    /\ Len(date_range) = 2
    /\ date_range[1] = date_range[2]
    /\ \E i \in 1 .. Len(df) : df[i].date # date_range[1]
    /\ \E i \in 1 .. Len(df) : df[i].severity \notin severity_options
    /\ Len(filtered_df) >= 1
    /\ Len(filtered_df) < Len(df)

\* C2: every loaded row carries exactly one of the four severity labels,
\* chosen by priority: Fatal when fatalities_30d > 0, otherwise Serious when
\* injuries_serious > 0, otherwise Light when injuries_light > 0, otherwise
\* Property Damage Only.
C2_SeverityByPriority ==
    \A i \in 1 .. Len(df) :
        /\ df[i].severity \in {"Fatal", "Serious", "Light", "Property Damage Only"}
        /\ df[i].severity = "Fatal" <=> df[i].fatalities_30d > 0
        /\ df[i].severity = "Serious" <=>
               (df[i].fatalities_30d <= 0 /\ df[i].injuries_serious > 0)
        /\ df[i].severity = "Light" <=>
               (df[i].fatalities_30d <= 0 /\ df[i].injuries_serious <= 0
                /\ df[i].injuries_light > 0)
        /\ df[i].severity = "Property Damage Only" <=>
               (df[i].fatalities_30d <= 0 /\ df[i].injuries_serious <= 0
                /\ df[i].injuries_light <= 0)

C2_Witness ==
    /\ HasRun
    /\ \E i \in 1 .. Len(df) :
          /\ df[i].fatalities_30d = 1
          /\ df[i].injuries_serious = 2
          /\ df[i].severity = "Fatal"

\* C3: for every hour 0..23 the loaded row carries exactly one time period:
\* Morning for 6..11, Afternoon for 12..17, Evening for 18..21 and Night for
\* 0..5 and 22..23.
C3_TimePeriodHalfOpen ==
    \A i \in 1 .. Len(df) :
        df[i].hour \in 0 .. 23 =>
            /\ df[i].time_period \in {"Morning", "Afternoon", "Evening", "Night"}
            /\ df[i].time_period = "Morning" <=> df[i].hour \in 6 .. 11
            /\ df[i].time_period = "Afternoon" <=> df[i].hour \in 12 .. 17
            /\ df[i].time_period = "Evening" <=> df[i].hour \in 18 .. 21
            /\ df[i].time_period = "Night" <=> df[i].hour \in (0 .. 5) \cup (22 .. 23)

C3_Witness ==
    /\ HasRun
    /\ \E i \in 1 .. Len(df) : df[i].hour = 12 /\ df[i].time_period = "Afternoon"

\* every widget holds everything: the date range spans the data and every
\* multiselect holds all of its options
AllValues ==
    /\ HasRun
    /\ date_range = << SetMin(Unique(df, "date")), SetMax(Unique(df, "date")) >>
    /\ severity_options = Unique(df, "severity")
    /\ weather_options = Unique(df, "weather")
    /\ road_type_options = Unique(df, "road_type")
    /\ parish_options = Unique(df, "parish")
    /\ time_period_options = TimePeriodChoices

\* C4: after a run with every filter at "all values" (the widgets' default)
\* the view is the full record set, same rows in the same order; and a rerun
\* with the same filter values yields the same view.
C4_AllValuesAndRepeatable ==
    [][/\ AllValues' => filtered_df' = df'
       /\ (HasRun /\ Filters' = Filters) => filtered_df' = filtered_df]_vars

C4_Witness ==
    /\ runs >= 2
    /\ AllValues
    /\ Len(df) >= 2
    /\ filtered_df = df

EmptyView == HasRun /\ filtered_df = <<>>

MetricsAreZero ==
    /\ metrics.total_accidents = 0
    /\ metrics.delta = <<0>>
    /\ metrics.total_casualties = 0
    /\ metrics.fatal_accidents = 0
    /\ metrics.serious_injuries = 0
    /\ metrics.parishes_affected = 0

EmptyTableAndExports ==
    /\ table = <<>>
    /\ csv = <<Columns>>
    /\ Len(csv_full) = Len(df) + 1

ChartsDrawn == HasRun /\ filtered_df # <<>>

RowsAtHour(h) == {i \in 1 .. Len(filtered_df) : filtered_df[i].hour = h}

C7_SevenDaysInWeekOrder ==
    ChartsDrawn =>
        [k \in 1 .. Len(day_data) |-> day_data[k].day_of_week]
            = << "Monday", "Tuesday", "Wednesday", "Thursday", "Friday",
                 "Saturday", "Sunday" >>

C7_Witness ==
    /\ ChartsDrawn
    /\ Len(day_data) = 7
    /\ day_data[1].count = NaN
    /\ day_data[2].count = <<1>>
    /\ day_data[3].count = <<2>>

RowsInMonth(m) == {i \in 1 .. Len(filtered_df) : filtered_df[i].month_name = m}

\* C8 as stated: the monthly aggregation has all twelve months, January to
\* December, with count 0 for the months without accidents.
C8_AllMonthsPresent ==
    ChartsDrawn =>
        /\ Len(monthly_data) = 12
        /\ \A k \in 1 .. Len(monthly_data) :
              /\ monthly_data[k].month_name = month_order[k]
              /\ monthly_data[k].count = Cardinality(RowsInMonth(month_order[k]))

\* C8: the monthly aggregation has one entry for each month that occurs in
\* the filtered view, in calendar order, with the number of rows of that
\* month; a month without accidents has no entry.
C8_OnlyMonthsInView ==
    ChartsDrawn =>
        /\ {monthly_data[k].month_name : k \in 1 .. Len(monthly_data)}
              = {filtered_df[i].month_name : i \in 1 .. Len(filtered_df)}
        /\ \A k \in 1 .. Len(monthly_data) - 1 :
              \E a, b \in 1 .. 12 :
                 /\ a < b
                 /\ monthly_data[k].month_name = month_order[a]
                 /\ monthly_data[k + 1].month_name = month_order[b]
        /\ \A k \in 1 .. Len(monthly_data) :
              /\ monthly_data[k].count = Cardinality(RowsInMonth(monthly_data[k].month_name))
              /\ monthly_data[k].count >= 1

C8_Witness ==
    /\ ChartsDrawn
    /\ Len(monthly_data) = 2
    /\ monthly_data[1] = [month_name |-> "January", count |-> 1]
    /\ monthly_data[2] = [month_name |-> "February", count |-> 2]

\* C9: every run leaves the full record set as load_data produced it, and
\* no rerun changes it or the full-dataset export, whatever the filters.
C9_FullSetUnchanged ==
    [][/\ df' = cached'
       /\ HasRun => (cached' = cached /\ df' = df /\ csv_full' = csv_full)]_vars

C9_Witness ==
    /\ runs >= 3
    /\ Len(filtered_df) >= 1
    /\ Len(filtered_df) < Len(df)
    /\ df = load_data(raw)
    /\ Len(csv_full) = Len(raw) + 1

\* C10: when the date-range widget holds fewer than two dates, the filtered
\* view is the entire record set, whatever the five multiselects hold.
C10_IncompleteRangeShowsEverything ==
    (HasRun /\ Len(date_range) # 2) => filtered_df = df

C10_Witness ==
    /\ HasRun
    /\ Len(date_range) = 1
    /\ \E i \in 1 .. Len(filtered_df) :
          /\ filtered_df[i].severity \notin severity_options
          /\ filtered_df[i].date # date_range[1]

====
